---- MODULE Spec2Model ----
(***************************************************************************)
(* Model of binarieClock.c: a binary clock on an 8-bit AVR.  Three         *)
(* execution contexts share the globals: the main loop (sleep check,       *)
(* debounce increment, LED multiplexing), the once-per-second timer        *)
(* overflow handler and the pin-change handler of the three buttons.       *)
(* A handler runs with interrupts disabled, so each handler is one atomic  *)
(* action; the main loop is split at every access to a shared volatile     *)
(* global, because a handler may run between any two of them.              *)
(***************************************************************************)
EXTENDS Integers, Sequences, FiniteSets, TLC

VARIABLES
    hours, minutes, seconds,  \* volatile uint8_t time of day
    ledSeq,                   \* volatile uint8_t ledSeq[11], indexed 0..10
    bouncer, sleep,           \* volatile int (16 bit, signed)
    PORTA,                    \* last value written to the output port
    pc, i, reg,               \* main loop: position, scan index, register copy of bouncer
    ticks, presses,           \* history: handler invocations so far (bounded)
    encCalls,                 \* history: updateSeq() calls made by handlers
    sinceWake,                \* history: ticks since startup or the last validated wake press
    mode,                     \* history: branch the main loop took last / wake press seen
    last,                     \* history: outcome of the edge handler, if the last step was one
    scan,                     \* history: the scan pass in progress, see NoScan
    nap                       \* history: the sleep period in progress, see NoNap

vars == <<hours, minutes, seconds, ledSeq, bouncer, sleep, PORTA, pc, i, reg,
          ticks, presses, encCalls, sinceWake, mode, last, scan, nap>>

clock == <<hours, minutes, seconds, ledSeq>>

----------------------------------------------------------------------------
(* Bounds of the model *)

\* edge-handler invocations that perform an action, in one run of Spec
MaxPresses == 1
\* tick-handler invocations in one run of Spec
MaxTicks == 26
\* the same two counts in one run of SpecAwake
MaxAwakePresses == 2
MaxAwakeTicks == 2
\* SpecPower starts LateTicks ticks after startup and runs to MaxPowerTicks
\* ticks, with at most MaxPowerPresses edge-handler invocations that act
LateTicks == 22
MaxPowerTicks == 27
MaxPowerPresses == 2
\* tick-handler invocations in one run of SpecTicks: one day
MaxDayTicks == 86400
\* HoursButton presses that perform an action, and ticks, in one run of SpecAdjust
MaxAdjustPresses == 21
MaxAdjustTicks == 1
\* MinutesButton presses that perform an action, and ticks, in one run of SpecMinutes
MaxMinutePresses == 44
MaxMinuteTicks == 1
\* presses that perform an action in one run of SpecFill, and the values
\* of hours and minutes up to which they are made
MaxFillPresses == 75
MaxFillHours == 31
MaxFillMinutes == 63
\* SpecSpin starts LateSpin main-loop iterations after startup and runs to
\* MaxSpin increments of bouncer in a row, with at most MaxSpinPresses
\* WakeButton presses that perform an action
LateSpin == 32760
MaxSpin == 32768
MaxSpinPresses == 1
\* the largest hours and minutes values handed to the encoder in SpecEnc
MaxEncHours == 31
MaxEncMinutes == 63
\* main-loop increments of bouncer without a validated press in between
MaxBouncer == 11

----------------------------------------------------------------------------
(* Program constants *)

DebounceThreshold == 10
SleepThreshold == 25
SleepPattern == 1
LedCells == 11
\* largest value of the 16-bit int sleep
IntMax == 32767

----------------------------------------------------------------------------
(* Machine arithmetic *)

\* uint8_t wrap-around
U8(x) == x % 256

\* 16-bit two's complement int, as avr-gcc stores an int
I16(x) == ((x + 32768) % 65536) - 32768

\* uint16_t wrap-around
U16(x) == x % 65536

RECURSIVE BitAnd(_, _)
BitAnd(a, b) ==
    IF a = 0 \/ b = 0 THEN 0
    ELSE (IF a % 2 = 1 /\ b % 2 = 1 THEN 1 ELSE 0) + 2 * BitAnd(a \div 2, b \div 2)

RECURSIVE BitXor(_, _)
BitXor(a, b) ==
    IF a = 0 THEN b
    ELSE IF b = 0 THEN a
    ELSE ((a + b) % 2) + 2 * BitXor(a \div 2, b \div 2)

RECURSIVE BitOr(_, _)
BitOr(a, b) ==
    IF a = 0 THEN b
    ELSE IF b = 0 THEN a
    ELSE (IF a % 2 = 1 \/ b % 2 = 1 THEN 1 ELSE 0) + 2 * BitOr(a \div 2, b \div 2)

ShiftLeft(a, n) == a * (2 ^ n)

----------------------------------------------------------------------------
(* The LED table and the encoder *)

ledPairs ==
    [k \in 0..10 |->
        CASE k = 0  -> [bin |-> 1,    ledPins |-> 3]
          [] k = 1  -> [bin |-> 2,    ledPins |-> 125]
          [] k = 2  -> [bin |-> 4,    ledPins |-> 5]
          [] k = 3  -> [bin |-> 8,    ledPins |-> 123]
          [] k = 4  -> [bin |-> 16,   ledPins |-> 9]
          [] k = 5  -> [bin |-> 32,   ledPins |-> 119]
          [] k = 6  -> [bin |-> 64,   ledPins |-> 33]
          [] k = 7  -> [bin |-> 128,  ledPins |-> 95]
          [] k = 8  -> [bin |-> 256,  ledPins |-> 65]
          [] k = 9  -> [bin |-> 512,  ledPins |-> 63]
          [] k = 10 -> [bin |-> 1024, ledPins |-> 129]]

\* memset(ledSeq, 0, sizeof ledSeq)
ZeroSeq == [k \in 0..(LedCells - 1) |-> 0]

\* time = (hours << 6) ^ minutes, stored in a uint16_t
PackTime(h, m) == U16(BitXor(ShiftLeft(h, 6), m))

\* the for loop of updateSeq: k is the loop variable, arrayInd the fill index
RECURSIVE FillSeq(_, _, _, _)
FillSeq(seq, time, k, arrayInd) ==
    IF k >= 11 THEN seq
    ELSE IF BitAnd(ledPairs[k].bin, time) # 0
         THEN FillSeq([seq EXCEPT ![arrayInd] = ledPairs[k].ledPins], time, k + 1, arrayInd + 1)
         ELSE FillSeq(seq, time, k + 1, arrayInd)

\* updateSeq() after time is computed: memset, then the loop if time > 0
EncodeWord(time) ==
    IF time > 0 THEN FillSeq(ZeroSeq, time, 0, 0) ELSE ZeroSeq

\* mutant of updateSeq: the scan starts at D1, leaving table entry D0 unused
updateSeqFromD1(h, m) ==
    IF PackTime(h, m) > 0 THEN FillSeq(ZeroSeq, PackTime(h, m), 1, 0) ELSE ZeroSeq

\* updateSeq(): the new contents of ledSeq for the globals hours, minutes
updateSeq(h, m) == EncodeWord(PackTime(h, m))

----------------------------------------------------------------------------
(* The handlers as functions on the globals they touch.  A handler state   *)
(* is a record; enc counts the updateSeq() calls the handler has made.     *)

Globals == [hours |-> hours, minutes |-> minutes, seconds |-> seconds,
            ledSeq |-> ledSeq, bouncer |-> bouncer, sleep |-> sleep,
            enc |-> 0, acted |-> {}]

\* mutant of SecondsRollover: updateSeq() is called outside the if
SecondsRolloverAlways(g) ==
    IF g.seconds = 60
    THEN [g EXCEPT !.seconds = 0,
                   !.minutes = U8(g.minutes + 1),
                   !.ledSeq = updateSeq(g.hours, U8(g.minutes + 1)),
                   !.enc = g.enc + 1]
    ELSE [g EXCEPT !.ledSeq = updateSeq(g.hours, g.minutes), !.enc = g.enc + 1]

\* timeSetter(): three sequential checks
SecondsRollover(g) ==
    IF g.seconds = 60
    THEN [g EXCEPT !.seconds = 0,
                   !.minutes = U8(g.minutes + 1),
                   !.ledSeq = updateSeq(g.hours, U8(g.minutes + 1)),
                   !.enc = g.enc + 1]
    ELSE g

\* mutant of MinutesRollover: hours++ is forgotten
MinutesRolloverNoCarry(g) ==
    IF g.minutes = 60 THEN [g EXCEPT !.minutes = 0] ELSE g

MinutesRollover(g) ==
    IF g.minutes = 60
    THEN [g EXCEPT !.minutes = 0, !.hours = U8(g.hours + 1)]
    ELSE g

\* mutant of HoursRollover: > instead of >=
HoursRolloverLate(g) ==
    IF g.hours > 24 THEN [g EXCEPT !.hours = 0] ELSE g

HoursRollover(g) ==
    IF g.hours >= 24 THEN [g EXCEPT !.hours = 0] ELSE g

timeSetter(g) == HoursRollover(MinutesRollover(SecondsRollover(g)))

\* mutant of TimerOverflow: sleep++ is forgotten
TimerOverflowNoSleep(g) ==
    timeSetter([g EXCEPT !.seconds = U8(g.seconds + 1)])

\* ISR(TIMER1_OVF_vect): seconds++; timeSetter(); sleep++
TimerOverflow(g) ==
    LET g1 == [g EXCEPT !.seconds = U8(g.seconds + 1)]
        g2 == timeSetter(g1)
    IN  [g2 EXCEPT !.sleep = I16(g2.sleep + 1)]

\* ISR(PCINT_vect): low is the set of inputs that read low
Buttons == {"A0", "B6", "B3"}

\* mutant of HoursBranch: the reset of bouncer is forgotten
HoursBranchNoReset(g, low) ==
    IF "A0" \in low /\ g.bouncer >= DebounceThreshold
    THEN [g EXCEPT !.hours = U8(g.hours + 1),
                   !.ledSeq = updateSeq(U8(g.hours + 1), g.minutes),
                   !.enc = g.enc + 1,
                   !.acted = g.acted \cup {"A0"}]
    ELSE g

\* mutant of HoursBranch: the action also resets sleep
HoursBranchResetsSleep(g, low) ==
    IF "A0" \in low /\ g.bouncer >= DebounceThreshold
    THEN [g EXCEPT !.hours = U8(g.hours + 1),
                   !.bouncer = 0,
                   !.sleep = 0,
                   !.ledSeq = updateSeq(U8(g.hours + 1), g.minutes),
                   !.enc = g.enc + 1,
                   !.acted = g.acted \cup {"A0"}]
    ELSE g

HoursBranch(g, low) ==
    IF "A0" \in low /\ g.bouncer >= DebounceThreshold
    THEN [g EXCEPT !.hours = U8(g.hours + 1),
                   !.bouncer = 0,
                   !.ledSeq = updateSeq(U8(g.hours + 1), g.minutes),
                   !.enc = g.enc + 1,
                   !.acted = g.acted \cup {"A0"}]
    ELSE g

\* mutant of MinutesBranch: the reset of bouncer is forgotten
MinutesBranchNoReset(g, low) ==
    IF "B6" \in low /\ g.bouncer >= DebounceThreshold
    THEN [g EXCEPT !.minutes = U8(g.minutes + 1),
                   !.ledSeq = updateSeq(g.hours, U8(g.minutes + 1)),
                   !.enc = g.enc + 1,
                   !.acted = g.acted \cup {"B6"}]
    ELSE g

MinutesBranch(g, low) ==
    IF "B6" \in low /\ g.bouncer >= DebounceThreshold
    THEN [g EXCEPT !.minutes = U8(g.minutes + 1),
                   !.bouncer = 0,
                   !.ledSeq = updateSeq(g.hours, U8(g.minutes + 1)),
                   !.enc = g.enc + 1,
                   !.acted = g.acted \cup {"B6"}]
    ELSE g

\* mutant of WakeBranch: the debounce test is forgotten
WakeBranchNoDebounce(g, low) ==
    IF "B3" \in low
    THEN [g EXCEPT !.sleep = 0, !.bouncer = 0, !.acted = g.acted \cup {"B3"}]
    ELSE g

\* mutant of WakeBranch: only bouncer is reset
WakeBranchNoSleepReset(g, low) ==
    IF "B3" \in low /\ g.bouncer >= DebounceThreshold
    THEN [g EXCEPT !.bouncer = 0, !.acted = g.acted \cup {"B3"}]
    ELSE g

WakeBranch(g, low) ==
    IF "B3" \in low /\ g.bouncer >= DebounceThreshold
    THEN [g EXCEPT !.sleep = 0, !.bouncer = 0, !.acted = g.acted \cup {"B3"}]
    ELSE g

PinChange(g, low) == WakeBranch(MinutesBranch(HoursBranch(g, low), low), low)

----------------------------------------------------------------------------
(* History of the edge handler: which actions it performed (acted), with   *)
(* which inputs low when it performed one (held), how many updateSeq()     *)
(* calls it made, and whether it ran with an input low and did nothing.    *)

NoEdge == [acted |-> {}, held |-> {}, enc |-> 0, rejected |-> FALSE]

EdgeOutcome(g, low) ==
    [acted |-> g.acted,
     held |-> IF g.acted = {} THEN {} ELSE low,
     enc |-> g.enc,
     rejected |-> (low # {} /\ g.acted = {})]

----------------------------------------------------------------------------
(* History of the scan of the main loop's else branch: the values the     *)
(* pass has written to the port so far (written), every content ledSeq    *)
(* has had since the pass began (seqs), and whether the pass has read the  *)
(* sentinel (done).  No pass is recorded between the end of one and the    *)
(* start of the next.                                                      *)

NoScan == [written |-> <<>>, seqs |-> {}, done |-> FALSE]

\* the patterns a scan of the ledSeq content seq writes: its entries before
\* the first 0
Shown(seq) ==
    LET n == IF \E k \in 0..(LedCells - 1) : seq[k] = 0
             THEN CHOOSE k \in 0..(LedCells - 1) :
                    seq[k] = 0 /\ \A j \in 0..(k - 1) : seq[j] # 0
             ELSE LedCells
    IN [k \in 1..n |-> seq[k - 1]]

\* a handler has stored seq to ledSeq
Rebuilt(seq) ==
    IF scan.seqs # {} /\ ~scan.done THEN [scan EXCEPT !.seqs = @ \cup {seq}] ELSE scan

(* History of the sleep branch: whether the main loop has entered the      *)
(* low-power wait and sleep has not been reset since (waited), and whether *)
(* the main loop's bouncer = 10 is the latest write to bouncer (armed).    *)

NoNap == [waited |-> FALSE, armed |-> FALSE]

\* the edge handler has performed the actions in acted
Pressed(acted) ==
    [waited |-> nap.waited /\ "B3" \notin acted,
     armed |-> nap.armed /\ acted = {}]

----------------------------------------------------------------------------
(* Initial state: the globals' initialisers, then setup()'s updateSeq()    *)

Init ==
    /\ hours = 3
    /\ minutes = 16
    /\ seconds = 0
    /\ ledSeq = updateSeq(3, 16)
    /\ bouncer = 0
    /\ sleep = 0
    /\ PORTA = 1
    /\ pc = "check"
    /\ i = 0
    /\ reg = 0
    /\ ticks = 0
    /\ presses = 0
    /\ encCalls = 0
    /\ sinceWake = 0
    /\ mode = "active"
    /\ last = NoEdge
    /\ scan = NoScan
    /\ nap = NoNap

----------------------------------------------------------------------------
(* Interrupt handlers.  Each runs to completion with interrupts disabled.  *)
(* An interrupt ends sleep_mode(): the main loop resumes at the loop top.  *)

Resume == IF pc = "sleepWait" THEN "check" ELSE pc

\* ISR(TIMER1_OVF_vect), at most maxTicks times in a run
Tick(maxTicks) ==
    /\ ticks < maxTicks
    /\ \E g \in {TimerOverflow(Globals)} :
        /\ hours' = g.hours
        /\ minutes' = g.minutes
        /\ seconds' = g.seconds
        /\ ledSeq' = g.ledSeq
        /\ sleep' = g.sleep
        /\ encCalls' = encCalls + g.enc
        /\ last' = NoEdge
        /\ scan' = Rebuilt(g.ledSeq)
    /\ pc' = Resume
    /\ ticks' = ticks + 1
    /\ sinceWake' = sinceWake + 1
    /\ UNCHANGED <<bouncer, PORTA, i, reg, presses, mode, nap>>

\* ISR(PCINT_vect) with the inputs in low reading low; at most maxPresses
\* invocations that perform an action in a run
Edge(low, maxPresses) ==
    /\ \E g \in {PinChange(Globals, low)} :
        /\ g.acted = {} \/ presses < maxPresses
        /\ hours' = g.hours
        /\ minutes' = g.minutes
        /\ seconds' = g.seconds
        /\ ledSeq' = g.ledSeq
        /\ bouncer' = g.bouncer
        /\ sleep' = g.sleep
        /\ encCalls' = encCalls + g.enc
        /\ last' = EdgeOutcome(g, low)
        /\ presses' = IF g.acted = {} THEN presses ELSE presses + 1
        /\ sinceWake' = IF "B3" \in g.acted THEN 0 ELSE sinceWake
        /\ mode' = IF "B3" \in g.acted /\ mode = "sleeping" THEN "woken" ELSE mode
        /\ scan' = Rebuilt(g.ledSeq)
        /\ nap' = Pressed(g.acted)
    /\ pc' = Resume
    /\ UNCHANGED <<PORTA, i, reg, ticks>>

----------------------------------------------------------------------------
(* The main loop, one action per access to a volatile global *)

\* if (sleep >= 25)
MainCheck ==
    /\ pc = "check"
    /\ IF sleep >= SleepThreshold
       THEN /\ pc' = "sleepSet"
            /\ mode' = "sleeping"
            /\ nap' = nap
       ELSE /\ pc' = "incRead"
            /\ mode' = IF mode = "woken" THEN "resumed" ELSE "active"
            /\ nap' = NoNap
    /\ last' = NoEdge
    /\ scan' = NoScan
    /\ UNCHANGED <<clock, bouncer, sleep, PORTA, i, reg, ticks, presses, encCalls, sinceWake>>

\* mutant of MainSleepSet: bouncer is set one short of the threshold
MainSleepSetShort ==
    /\ pc = "sleepSet"
    /\ bouncer' = DebounceThreshold - 1
    /\ pc' = "sleepPort"
    /\ last' = NoEdge
    /\ nap' = [nap EXCEPT !.armed = TRUE]
    /\ UNCHANGED <<clock, sleep, PORTA, i, reg, ticks, presses, encCalls, sinceWake, mode, scan>>

\* bouncer = 10
MainSleepSet ==
    /\ pc = "sleepSet"
    /\ bouncer' = DebounceThreshold
    /\ pc' = "sleepPort"
    /\ last' = NoEdge
    /\ nap' = [nap EXCEPT !.armed = TRUE]
    /\ UNCHANGED <<clock, sleep, PORTA, i, reg, ticks, presses, encCalls, sinceWake, mode, scan>>

\* PORTA = 0x01; sleep_mode()
MainSleepPort ==
    /\ pc = "sleepPort"
    /\ PORTA' = SleepPattern
    /\ pc' = "sleepWait"
    /\ last' = NoEdge
    /\ nap' = [nap EXCEPT !.waited = TRUE]
    /\ UNCHANGED <<clock, bouncer, sleep, i, reg, ticks, presses, encCalls, sinceWake, mode, scan>>

\* bouncer++, first half: load the 16-bit value into registers; at most
\* maxBouncer increments in a row
MainIncReadTo(maxBouncer) ==
    /\ pc = "incRead"
    /\ bouncer \in 0..(maxBouncer - 1)
    /\ reg' = bouncer
    /\ pc' = "incWrite"
    /\ last' = NoEdge
    /\ UNCHANGED <<clock, bouncer, sleep, PORTA, i, ticks, presses, encCalls, sinceWake, mode,
                   scan, nap>>

MainIncRead == MainIncReadTo(MaxBouncer)

\* bouncer++, second half: store the incremented registers; int i = 0
MainIncWrite ==
    /\ pc = "incWrite"
    /\ bouncer' = I16(reg + 1)
    /\ i' = 0
    /\ pc' = "scanTest"
    /\ last' = NoEdge
    /\ scan' = [written |-> <<>>, seqs |-> {ledSeq}, done |-> FALSE]
    /\ UNCHANGED <<clock, sleep, PORTA, reg, ticks, presses, encCalls, sinceWake, mode, nap>>

\* a read of ledSeq[k]; beyond the array the read is out of bounds and may
\* yield any byte
ReadLedSeq(k) == IF k < LedCells THEN {ledSeq[k]} ELSE 0..255

\* while (ledSeq[i] != 0b0)
MainScanTest ==
    /\ pc = "scanTest"
    /\ i <= LedCells
    /\ \E v \in ReadLedSeq(i) :
        IF v # 0
        THEN /\ pc' = "scanWrite"
             /\ i' = i
             /\ scan' = scan
        ELSE /\ pc' = "check"
             /\ i' = 0
             /\ scan' = [scan EXCEPT !.done = TRUE]
    /\ last' = NoEdge
    /\ UNCHANGED <<clock, bouncer, sleep, PORTA, reg, ticks, presses, encCalls, sinceWake, mode,
                   nap>>

\* PORTA = ledSeq[i]; i++
MainScanWrite ==
    /\ pc = "scanWrite"
    /\ \E v \in ReadLedSeq(i) :
        /\ PORTA' = v
        /\ scan' = [scan EXCEPT !.written = Append(@, v)]
    /\ i' = i + 1
    /\ pc' = "scanTest"
    /\ last' = NoEdge
    /\ UNCHANGED <<clock, bouncer, sleep, reg, ticks, presses, encCalls, sinceWake, mode, nap>>

Main ==
    \/ MainCheck
    \/ MainSleepSet
    \/ MainSleepPort
    \/ MainIncRead
    \/ MainIncWrite
    \/ MainScanTest
    \/ MainScanWrite

----------------------------------------------------------------------------
(* Spec: every interleaving of the three contexts, from startup.  The      *)
(* specifications after it are parts of it: fewer contexts, a shorter      *)
(* stretch of it, or a start in one of its later states.                   *)

TickISR == Tick(MaxTicks)

EdgeISR == \E low \in SUBSET Buttons : Edge(low, MaxPresses)

Next == TickISR \/ EdgeISR \/ Main

Spec == Init /\ [][Next]_vars

----------------------------------------------------------------------------
(* SpecAwake: the interleavings of Spec within the first seconds after     *)
(* startup.  With fewer than 25 ticks the main loop never takes its sleep  *)
(* branch, so only the steps of the else branch appear.                    *)

TickAwake == Tick(MaxAwakeTicks)

EdgeAwake == \E low \in SUBSET Buttons : Edge(low, MaxAwakePresses)

NextAwake ==
    \/ TickAwake
    \/ EdgeAwake
    \/ MainCheck
    \/ MainIncRead
    \/ MainIncWrite
    \/ MainScanTest
    \/ MainScanWrite

SpecAwake == Init /\ [][NextAwake]_vars

----------------------------------------------------------------------------
(* SpecPower: the interleavings of Spec around the transition to sleep.    *)
(* It starts in the state Spec reaches by LateTicks ticks from startup     *)
(* with no main-loop step and no edge in between.                          *)

\* the globals after n more runs of the tick handler
RECURSIVE AfterTicks(_, _)
AfterTicks(g, n) ==
    IF n = 0 THEN g
    ELSE CHOOSE r \in {AfterTicks(h, n - 1) : h \in {TimerOverflow(g)}} : TRUE

StartGlobals == [hours |-> 3, minutes |-> 16, seconds |-> 0,
                 ledSeq |-> updateSeq(3, 16), bouncer |-> 0, sleep |-> 0,
                 enc |-> 0, acted |-> {}]

InitPower ==
    /\ \E g \in {AfterTicks(StartGlobals, LateTicks)} :
        /\ hours = g.hours
        /\ minutes = g.minutes
        /\ seconds = g.seconds
        /\ ledSeq = g.ledSeq
        /\ bouncer = g.bouncer
        /\ sleep = g.sleep
        /\ encCalls = g.enc
    /\ PORTA = 1
    /\ pc = "check"
    /\ i = 0
    /\ reg = 0
    /\ ticks = LateTicks
    /\ presses = 0
    /\ sinceWake = LateTicks
    /\ mode = "active"
    /\ last = NoEdge
    /\ scan = NoScan
    /\ nap = NoNap

TickPower == Tick(MaxPowerTicks)

EdgePower == \E low \in SUBSET Buttons : Edge(low, MaxPowerPresses)

NextPower == TickPower \/ EdgePower \/ Main

SpecPower == InitPower /\ [][NextPower]_vars

----------------------------------------------------------------------------
(* SpecTicks: the tick handler alone, for one day from startup *)

TickDay == Tick(MaxDayTicks)

SpecTicks == Init /\ [][TickDay]_vars

----------------------------------------------------------------------------
(* SpecDay: one day of ticks from startup with the main loop's sleep test  *)
(* and sleep branch.  The steps of the else branch are not part of it: a   *)
(* main loop that enters the else branch is not followed further.          *)

NextDay == TickDay \/ MainCheck \/ MainSleepSet \/ MainSleepPort

SpecDay == Init /\ [][NextDay]_vars

----------------------------------------------------------------------------
(* SpecAdjust: repeated HoursButton presses and few ticks.  With fewer     *)
(* than 25 ticks the main loop never takes its sleep branch, so only the   *)
(* steps of the else branch appear.                                        *)

TickAdjust == Tick(MaxAdjustTicks)

HoursPress == Edge({"A0"}, MaxAdjustPresses)

NextAdjust ==
    \/ TickAdjust
    \/ HoursPress
    \/ MainCheck
    \/ MainIncRead
    \/ MainIncWrite
    \/ MainScanTest
    \/ MainScanWrite

SpecAdjust == Init /\ [][NextAdjust]_vars

----------------------------------------------------------------------------
(* SpecMinutes: repeated MinutesButton presses and few ticks; as in        *)
(* SpecAdjust, only the steps of the main loop's else branch appear.       *)

TickMinutes == Tick(MaxMinuteTicks)

MinutesPress == Edge({"B6"}, MaxMinutePresses)

NextMinutes ==
    \/ TickMinutes
    \/ MinutesPress
    \/ MainCheck
    \/ MainIncRead
    \/ MainIncWrite
    \/ MainScanTest
    \/ MainScanWrite

SpecMinutes == Init /\ [][NextMinutes]_vars

----------------------------------------------------------------------------
(* SpecFill: HoursButton and MinutesButton presses in any order, with no   *)
(* tick in between, and the steps of the main loop's else branch.          *)

HoursFill == hours < MaxFillHours /\ Edge({"A0"}, MaxFillPresses)

MinutesFill == minutes < MaxFillMinutes /\ Edge({"B6"}, MaxFillPresses)

NextFill ==
    \/ HoursFill
    \/ MinutesFill
    \/ MainCheck
    \/ MainIncRead
    \/ MainIncWrite
    \/ MainScanTest
    \/ MainScanWrite

SpecFill == Init /\ [][NextFill]_vars

----------------------------------------------------------------------------
(* SpecSpin: the main loop's else branch iterating for a long time within  *)
(* one second, with WakeButton edges and no tick.  It starts in the state  *)
(* Spec reaches by LateSpin iterations of the main loop from startup with  *)
(* no handler in between: each iteration adds 1 to bouncer and writes the  *)
(* patterns of ledSeq to the port, the last of them last.                  *)

\* the state after n >= 1 iterations of the main loop's else branch
AfterIterations(n) ==
    /\ hours = 3
    /\ minutes = 16
    /\ seconds = 0
    /\ ledSeq = updateSeq(3, 16)
    /\ bouncer = n
    /\ sleep = 0
    /\ PORTA = Shown(updateSeq(3, 16))[Len(Shown(updateSeq(3, 16)))]
    /\ pc = "check"
    /\ i = 0
    /\ reg = n - 1
    /\ ticks = 0
    /\ presses = 0
    /\ encCalls = 0
    /\ sinceWake = 0
    /\ mode = "active"
    /\ last = NoEdge
    /\ scan = [written |-> Shown(updateSeq(3, 16)), seqs |-> {updateSeq(3, 16)}, done |-> TRUE]
    /\ nap = NoNap

InitSpin == AfterIterations(LateSpin)

MainSpinRead == MainIncReadTo(MaxSpin)

WakeSpin == Edge({"B3"}, MaxSpinPresses)

NextSpin ==
    \/ WakeSpin
    \/ MainCheck
    \/ MainSpinRead
    \/ MainIncWrite
    \/ MainScanTest
    \/ MainScanWrite

SpecSpin == InitSpin /\ [][NextSpin]_vars

----------------------------------------------------------------------------
(* SpecEnc: updateSeq() alone, called once on each packed time word        *)

InitEnc ==
    /\ hours \in 0..MaxEncHours
    /\ minutes \in 0..MaxEncMinutes
    /\ seconds = 0
    /\ ledSeq = ZeroSeq
    /\ bouncer = 0
    /\ sleep = 0
    /\ PORTA = 1
    /\ pc = "encode"
    /\ i = 0
    /\ reg = 0
    /\ ticks = 0
    /\ presses = 0
    /\ encCalls = 0
    /\ sinceWake = 0
    /\ mode = "active"
    /\ last = NoEdge
    /\ scan = NoScan
    /\ nap = NoNap

Encode ==
    /\ pc = "encode"
    /\ ledSeq' = updateSeq(hours, minutes)
    /\ encCalls' = encCalls + 1
    /\ pc' = "encoded"
    /\ UNCHANGED <<hours, minutes, seconds, bouncer, sleep, PORTA, i, reg,
                   ticks, presses, sinceWake, mode, last, scan, nap>>

SpecEnc == InitEnc /\ [][Encode]_vars

----------------------------------------------------------------------------
(* Properties *)

\* the packed time word of the data model: (hours << 6) | minutes
PackedTimeWord == BitOr(ShiftLeft(hours, 6), minutes)

\* the output patterns of the table entries whose bit is set in w, from
\* entry k on, in ascending bit-position order
RECURSIVE PatternsFrom(_, _)
PatternsFrom(w, k) ==
    IF k > 10 THEN <<>>
    ELSE IF BitAnd(ledPairs[k].bin, w) # 0
         THEN <<ledPairs[k].ledPins>> \o PatternsFrom(w, k + 1)
         ELSE PatternsFrom(w, k + 1)

\* ledSeq holds exactly the patterns ps, then the sentinel 0 in a cell of its own
HoldsThenSentinel(ps) ==
    /\ Len(ps) < LedCells
    /\ \A k \in 0..(Len(ps) - 1) : ledSeq[k] = ps[k + 1]
    /\ ledSeq[Len(ps)] = 0

\* C1 (as claimed): in every state between handlers, ledSeq is the encoding of
\* the packed time word of the current hours and minutes.
C1_DisplayMatchesTime == ledSeq = EncodeWord(PackedTimeWord)

\* C2 (as claimed): after every tick handler and every edge handler, hours is
\* in 0..23, minutes in 0..59 and seconds in 0..59; in particular a validated
\* HoursButton press never leaves hours = 24 and a validated MinutesButton
\* press never leaves minutes = 60.
C2_RangeUnderAdjustments ==
    /\ hours \in 0..23 /\ minutes \in 0..59 /\ seconds \in 0..59
    /\ "A0" \in last.acted => hours # 24
    /\ "B6" \in last.acted => minutes # 60

\* C3: with ticks only, from 03:16:00, after each tick handler hours is in
\* 0..23, minutes is in 0..59 and seconds is in 0..59.
C3_RangeUnderTicks ==
    /\ hours >= 0 /\ hours <= 23
    /\ minutes >= 0 /\ minutes <= 59
    /\ seconds >= 0 /\ seconds <= 59

\* C3 witness: the clock has ticked through 23:59:59 to midnight
C3_Witness == ticks > 0 /\ hours = 0 /\ minutes = 0 /\ seconds = 0

\* C4 (as claimed): for every packed time word, after updateSeq() ledSeq holds
\* exactly the patterns of the set bits in ascending order, followed by the
\* sentinel 0 inside the sequence; empty for word 0; D4, D6, D7 for word 208.
C4_EncoderResult ==
    pc = "encoded" =>
        /\ HoldsThenSentinel(PatternsFrom(PackedTimeWord, 0))
        /\ PackedTimeWord = 0 => ledSeq[0] = 0
        /\ PackedTimeWord = 208 => /\ ledSeq[0] = 9
                                   /\ ledSeq[1] = 33
                                   /\ ledSeq[2] = 95
                                   /\ ledSeq[3] = 0

\* C5 (as claimed): for 00:01 the encoder produces [0b01111101], then the sentinel.
C5_EncodeOneAsClaimed ==
    (pc = "encoded" /\ hours = 0 /\ minutes = 1) => (ledSeq[0] = 125 /\ ledSeq[1] = 0)

\* C5 (amended): for 00:01 (packed time word 1, bit 0 set) the encoder produces
\* the pattern of table entry D0, [0b00000011], then the sentinel.
C5_EncodeOne ==
    (pc = "encoded" /\ hours = 0 /\ minutes = 1) => (ledSeq[0] = 3 /\ ledSeq[1] = 0)

\* C5 witness: the encoder has run on 00:01
C5_Witness == pc = "encoded" /\ hours = 0 /\ minutes = 1 /\ encCalls = 1

\* C6: with ticks only, a tick calls updateSeq() exactly when it rolls seconds
\* from 59 to 0 (once, and not otherwise); so after every 60 ticks from
\* seconds = 0 the minute has advanced by one, updateSeq() has been called
\* once more, and seconds is 0 again.
C6_ReencodeOnRollover ==
    /\ [](/\ seconds = ticks % 60
          /\ encCalls = ticks \div 60
          /\ minutes = (16 + (ticks \div 60)) % 60)
    /\ [][ticks' = ticks + 1 =>
            /\ (seconds = 59 /\ seconds' = 0) => encCalls' = encCalls + 1
            /\ ~(seconds = 59 /\ seconds' = 0) => encCalls' = encCalls]_vars

\* C6 witness: 60 ticks after startup, one re-encode, 03:17:00
C6_Witness == ticks = 60 /\ seconds = 0 /\ encCalls = 1 /\ minutes = 17

\* a step of the edge handler: not a tick (ticks unchanged) and not a
\* main-loop step (the main loop's position moves only by ending the wait)
EdgeStep == ticks' = ticks /\ pc' = Resume /\ UNCHANGED <<PORTA, i, reg>>

\* C7: an edge-handler invocation that starts with bouncer < 10 changes
\* nothing, whichever inputs read low: hours, minutes, sleep, ledSeq and
\* bouncer keep their values and updateSeq() is not called.
C7_DebounceRejection ==
    [][(bouncer < DebounceThreshold /\ EdgeStep) =>
            /\ UNCHANGED <<hours, minutes, seconds, sleep, ledSeq, bouncer>>
            /\ encCalls' = encCalls
            /\ last'.acted = {}]_vars

\* C7 witness: the handler has just run with an input low and bouncer < 10
C7_Witness == last.rejected /\ bouncer < DebounceThreshold /\ bouncer > 0

C9_SleepEntry ==
    [][/\ (MainCheck /\ sinceWake >= SleepThreshold /\ sinceWake <= IntMax) =>
            (pc' = "sleepSet" /\ mode' = "sleeping")
       /\ (pc = "sleepSet" /\ pc' # pc) =>
            (bouncer' = 10 /\ pc' = "sleepPort" /\ PORTA' = PORTA)
       /\ (pc = "sleepPort" /\ pc' # pc) =>
            (PORTA' = 1 /\ pc' = "sleepWait" /\ bouncer' = bouncer)
       /\ (pc = "sleepWait" /\ pc' # pc) =>
            (pc' = "check" /\ PORTA' = PORTA /\ (ticks' = ticks + 1 \/ EdgeStep))]_vars

\* C9 witness: 25 ticks after startup the main loop is in the low-power wait
C9_Witness ==
    /\ pc = "sleepWait"
    /\ PORTA = 1
    /\ bouncer = 10
    /\ sinceWake >= SleepThreshold
    /\ mode = "sleeping"

\* C10: when the main loop has taken the sleep branch and an edge handler
\* runs with bouncer >= 10 and only the wake input low, sleep becomes 0; if
\* fewer than 25 ticks follow before the main loop's next sleep test, that
\* iteration takes the else branch: it increments bouncer and scans ledSeq
\* to PORTA.
C10_Wake ==
    [][/\ (mode = "sleeping" /\ bouncer >= DebounceThreshold /\ Edge({"B3"}, MaxPowerPresses)) =>
            (sleep' = 0 /\ mode' = "woken")
       /\ (mode = "woken" /\ sinceWake < SleepThreshold /\ MainCheck) =>
            (pc' = "incRead" /\ mode' = "resumed")
       /\ (mode = "resumed" /\ pc = "incRead" /\ pc' # pc) =>
            (pc' = "incWrite" /\ reg' = bouncer)
       /\ (mode = "resumed" /\ pc = "incWrite" /\ pc' # pc) =>
            (pc' = "scanTest" /\ bouncer' = reg + 1 /\ i' = 0)
       /\ (mode = "resumed" /\ pc = "scanTest" /\ pc' # pc /\ ledSeq[i] # 0) =>
            (pc' = "scanWrite" /\ i' = i)
       /\ (mode = "resumed" /\ pc = "scanWrite" /\ pc' # pc) =>
            (pc' = "scanTest" /\ PORTA' = ledSeq[i] /\ i' = i + 1)]_vars

\* C10 witness: after a validated wake press during sleep, the main loop is
\* writing a pattern of ledSeq to the port again
C10_Witness ==
    /\ mode = "resumed"
    /\ pc = "scanTest"
    /\ i > 0
    /\ PORTA = ledSeq[i - 1]
    /\ sleep < SleepThreshold

\* C11: every value the main loop writes to the output port, a pattern of
\* ledSeq in the else branch or 0x01 in the sleep branch, has bit 0 set, so
\* the port holds an odd value at all times.
C11_OutputBitZeroHigh == PORTA % 2 = 1

IsPrefix(s, t) == Len(s) <= Len(t) /\ \A k \in 1..Len(s) : s[k] = t[k]

\* C12: the patterns one pass of the scan writes to the port are those of
\* one content of ledSeq, the one before or the one after a rebuild: while
\* the pass runs they are a prefix of it, and when the pass ends they are
\* all of it; never entries of the old content followed by entries of the
\* new one.
C12_NoTornScan ==
    scan.seqs # {} =>
        \E v \in scan.seqs :
            IF scan.done THEN scan.written = Shown(v) ELSE IsPrefix(scan.written, Shown(v))

\* C13: once 25 ticks have passed since startup or the last validated
\* WakeButton press, every sleep test of the main loop takes the sleep
\* branch, however many more ticks have incremented the 16-bit int sleep.
C13_SleepPersists ==
    [][(MainCheck /\ sinceWake >= SleepThreshold) => pc' = "sleepSet"]_vars

\* C14 as claimed: from the main loop's first entry into the low-power wait
\* until sleep is reset, every run of the edge handler with only the wake
\* input low finds bouncer >= 10 and sets sleep to 0.
C14_WakeAlwaysAccepted ==
    [][(nap.waited /\ Edge({"B3"}, MaxPowerPresses)) =>
            (bouncer >= DebounceThreshold /\ sleep' = 0)]_vars

\* C14: in the same period, while the main loop's bouncer = 10 is the latest
\* write to bouncer (no press has been validated since), bouncer is 10, and
\* a run of the edge handler with only the wake input low performs the wake
\* action and sets sleep to 0, whatever ticks, rejected edges and main-loop
\* steps have come in between.
C14_WakeAcceptedWhenArmed ==
    /\ [](nap.armed => bouncer = DebounceThreshold)
    /\ [][(nap.waited /\ nap.armed /\ Edge({"B3"}, MaxPowerPresses)) =>
            (sleep' = 0 /\ last'.acted = {"B3"} /\ ~nap'.waited)]_vars

\* C14 witness: during sleep an hours press was validated, the main loop set
\* bouncer = 10 again, and the wake press that followed was accepted
C14_Witness ==
    /\ last.acted = {"B3"}
    /\ mode = "woken"
    /\ sleep = 0
    /\ presses = 2
    /\ hours = 4
    /\ sinceWake = 0

InRange == hours \in 0..23 /\ minutes \in 0..59 /\ seconds \in 0..59

SecondOfDay == (hours * 3600) + (minutes * 60) + seconds

\* C15: a tick maps an in-range time to the next second of the day, 23:59:59
\* to 00:00:00, whatever the main loop is doing, in its else branch or in
\* the low-power wait; a tick that rolls seconds over calls updateSeq(), and
\* unless the minute rolls over too, ledSeq then encodes the new time.
C15_TimeRunsAsleep ==
    [][ticks' = ticks + 1 =>
        /\ InRange => (InRange' /\ SecondOfDay' = (SecondOfDay + 1) % (24 * 3600))
        /\ seconds = 59 =>
            /\ encCalls' = encCalls + 1
            /\ minutes < 59 => ledSeq' = EncodeWord(PackedTimeWord')
        /\ pc = "sleepWait" => pc' = "check"]_vars

\* C15 witness: midnight has come by ticks alone, 1244 minute rollovers
\* after startup, with the main loop woken from the low-power wait by the
\* tick
C15_Witness ==
    /\ hours = 0 /\ minutes = 0 /\ seconds = 0
    /\ ticks > 0
    /\ encCalls = 1244
    /\ nap.waited
    /\ pc = "check"

\* C16: the edge handler never changes seconds, a validated MinutesButton
\* press leaves hours as it is, and hours changes only in a validated
\* HoursButton press or in the tick that rolls seconds over from 59 to 0:
\* no other tick advances hours because minutes was adjusted.
C16_NoCarryFromMinutes ==
    [][/\ EdgeStep => seconds' = seconds
       /\ (EdgeStep /\ "B6" \in last'.acted) => hours' = hours
       /\ hours' # hours =>
            \/ ticks' = ticks + 1 /\ seconds = 59
            \/ EdgeStep /\ "A0" \in last'.acted]_vars

\* C17: outside the tick handler, sleep changes only in a run of the edge
\* handler that performs the wake action, which sets it to 0: validated
\* HoursButton and MinutesButton presses, rejected edges and the steps of
\* the main loop leave it as it is.
C17_SleepFrame ==
    [][ticks' = ticks =>
        /\ sleep' # sleep => (EdgeStep /\ last'.acted = {"B3"} /\ sleep' = 0)
        /\ "B3" \in last'.acted => sleep' = 0
        /\ last'.acted \cap {"A0", "B6"} # {} => sleep' = sleep
        /\ last'.rejected => sleep' = sleep]_vars

\* C17 witness: an hours press was validated during sleep and the sleep
\* counter still holds its 25 ticks or more
C17_Witness ==
    /\ last.acted = {"A0"}
    /\ hours = 4
    /\ mode = "sleeping"
    /\ sleep >= SleepThreshold
    /\ sleep = sinceWake

\* the input whose branch comes first in the edge handler, of those in low
First(low) == IF "A0" \in low THEN "A0" ELSE IF "B6" \in low THEN "B6" ELSE "B3"

\* C18: one run of the edge handler performs at most one action, that of the
\* first of the inputs reading low in the order hours, minutes, wake; with
\* the wake input low together with another one, the wake action is not
\* performed and sleep keeps its value.
C18_OneActionPerEdge ==
    /\ [](last.acted # {} => last.acted = {First(last.held)})
    /\ [][(EdgeStep /\ "B3" \in last'.held /\ last'.held # {"B3"}) =>
            ("B3" \notin last'.acted /\ sleep' = sleep)]_vars

\* C18 witness: with all three inputs low during sleep the edge handler
\* advanced hours only
C18_Witness ==
    /\ last.held = {"A0", "B6", "B3"}
    /\ last.acted = {"A0"}
    /\ hours = 4 /\ minutes = 16
    /\ sleep >= SleepThreshold
    /\ bouncer = 0

\* C19: ledSeq always holds the sentinel 0 in one of its cells 0..10, so the
\* scan of the main loop ends inside the array and never reads ledSeq[11].
C19_SentinelInBuffer ==
    /\ \E k \in 0..(LedCells - 1) : ledSeq[k] = 0
    /\ pc \in {"scanTest", "scanWrite"} => i < LedCells

\* C20: once bouncer is 10 or more it stays 10 or more over every step that
\* is not a run of the edge handler performing an action, however many
\* iterations of the main loop increment the 16-bit int.
C20_DebounceStaysArmed ==
    [][(bouncer >= DebounceThreshold /\ last'.acted = {}) =>
            bouncer' >= DebounceThreshold]_vars

====
